---- MODULE Spec2Model ----
(***************************************************************************)
(* Model of the NetBox migration scripts:                                  *)
(*   migrate_config_context/nb_migrate_config_context.py  (config contexts)*)
(*   migrate_local_context/nb_migrate_local_context.py    (local context)  *)
(* A run of either script is a state machine: fetch the source, then       *)
(* reconcile the destination one object at a time, then log a summary.     *)
(* Every remote call has one of three outcomes: "ok", "status" (an error   *)
(* HTTP status) or "exc" (the transport raises before any response).       *)
(***************************************************************************)
EXTENDS Integers, Sequences, FiniteSets, Bags, TLC

\* ---------------------------------------------------------------- bounds
\* Largest number of source config contexts in one run (one per page).
MaxSrc == 2
\* Largest number of source virtual machines / devices per collection.
MaxObjs == 2
\* Longest list handed to a function applied on its own.
MaxLen == 2

\* ------------------------------------------------------- generic helpers
Outcomes == {"ok", "status", "exc"}

RECURSIVE Flatten(_)
\* Concatenation of a sequence of sequences.
Flatten(ss) == IF ss = <<>> THEN <<>> ELSE Head(ss) \o Flatten(Tail(ss))

\* The multiset of the elements of a sequence.
BagOf(s) == [x \in {s[i] : i \in DOMAIN s} |-> Cardinality({i \in DOMAIN s : s[i] = x})]

RECURSIVE Insert(_, _)
\* x inserted into the ascending sequence s.
Insert(x, s) ==
    IF s = <<>> THEN <<x>>
    ELSE IF x <= Head(s) THEN <<x>> \o s
    ELSE <<Head(s)>> \o Insert(x, Tail(s))

RECURSIVE sorted(_)
\* Python's sorted() on a list of integers.
sorted(s) == IF s = <<>> THEN <<>> ELSE Insert(Head(s), sorted(Tail(s)))

\* A request as it leaves the process: host is "src" or "dst".
Req(host, method, path, key, s, n) ==
    [host |-> host, method |-> method, path |-> path, key |-> key, s |-> s, n |-> n]

\* ---------------------------------------------------------- config data
\* The 13 assignment fields, in the order the scripts list them.
list_fields ==
    << "regions", "site_groups", "sites", "locations", "device_types",
       "roles", "platforms", "cluster_types", "cluster_groups", "clusters",
       "tenant_groups", "tenants", "tags" >>

FieldSet == {list_fields[i] : i \in DOMAIN list_fields}

\* The generic lookup table: field -> (endpoint, filter key); tags are absent.
lookup ==
    [ regions        |-> [endpoint |-> "dcim/regions",                  filter_key |-> "slug"],
      site_groups    |-> [endpoint |-> "dcim/site-groups",              filter_key |-> "slug"],
      sites          |-> [endpoint |-> "dcim/sites",                    filter_key |-> "slug"],
      locations      |-> [endpoint |-> "dcim/locations",                filter_key |-> "slug"],
      device_types   |-> [endpoint |-> "dcim/device-types",             filter_key |-> "slug"],
      roles          |-> [endpoint |-> "dcim/device-roles",             filter_key |-> "slug"],
      platforms      |-> [endpoint |-> "dcim/platforms",                filter_key |-> "slug"],
      cluster_types  |-> [endpoint |-> "virtualization/cluster-types",  filter_key |-> "slug"],
      cluster_groups |-> [endpoint |-> "virtualization/cluster-groups", filter_key |-> "slug"],
      clusters       |-> [endpoint |-> "virtualization/clusters",       filter_key |-> "name"],
      tenant_groups  |-> [endpoint |-> "tenancy/tenant-groups",         filter_key |-> "slug"],
      tenants        |-> [endpoint |-> "tenancy/tenants",               filter_key |-> "slug"] ]

TagsEndpoint == "extras/tags"
ContextsEndpoint == "extras/config-contexts"

\* A bare integer reference and an object reference (a dict with some of
\* the keys slug, name, id).
IntRef(n) == [kind |-> "int", v |-> n]
DictRef(d) == [kind |-> "dict", d |-> d]

\* The entities the destination serves on each reference endpoint.
DestRefs(endpoint) ==
    CASE endpoint = "dcim/regions" ->
            << [id |-> 1, slug |-> "a", name |-> "A"],
               [id |-> 2, slug |-> "b", name |-> "B"] >>
      [] endpoint = "dcim/sites" ->
            << [id |-> 3, slug |-> "s1", name |-> "S1"] >>
      [] endpoint = "virtualization/clusters" ->
            << [id |-> 4, slug |-> "", name |-> "c1"],
               [id |-> 6, slug |-> "", name |-> "c1"] >>
      [] endpoint = "extras/tags" ->
            << [id |-> 9, slug |-> "prod", name |-> "Prod"] >>
      [] OTHER -> << >>

\* The 'results' of GET <endpoint>/?<filter_key>=<term> on the destination.
QueryRefs(endpoint, filter_key, term) ==
    SelectSeq(DestRefs(endpoint), LAMBDA e : e[filter_key] = term)

EmptyAssignments == [f \in FieldSet |-> << >>]

\* Source config contexts the runs draw from (items of the source listing).
SrcPool ==
    << \* ctx-A: every key present, no regions, tags as integer and as object
       [name |-> "ctx-A", weight |-> 100, data |-> "d1", is_active |-> TRUE,
        description |-> "", regions |-> << >>,
        tags |-> << IntRef(5), DictRef([slug |-> "prod", id |-> 30]) >>],
       \* ctx-A with another weight
       [name |-> "ctx-A", weight |-> 200, data |-> "d1", is_active |-> TRUE,
        description |-> "", regions |-> << >>,
        tags |-> << IntRef(5), DictRef([slug |-> "prod", id |-> 30]) >>],
       \* ctx-B: is_active and description absent, duplicate region
       [name |-> "ctx-B", weight |-> 100, data |-> "d2",
        regions |-> << DictRef([slug |-> "b"]), DictRef([slug |-> "a"]),
                       DictRef([slug |-> "a"]) >>],
       \* ctx-C: references by name, by id only and as a bare integer
       [name |-> "ctx-C", weight |-> 100, data |-> "d1", is_active |-> FALSE,
        description |-> "c",
        regions |-> << DictRef([id |-> 7]), IntRef(1) >>,
        clusters |-> << DictRef([name |-> "c1", id |-> 8]) >>,
        tags |-> << DictRef([name |-> "noslug"]), DictRef([slug |-> "gone"]) >>] >>

\* A destination config context as the server stores it.
DestCtx(id, name, weight, data, is_active, description, regions, tags) ==
    [id |-> id, name |-> name, weight |-> weight, data |-> data,
     is_active |-> is_active, description |-> description,
     assign |-> [EmptyAssignments EXCEPT !["regions"] = regions, !["tags"] = tags]]

\* Destination config contexts an initial destination may hold.
DestPool ==
    << DestCtx(1, "ctx-A", 100, "d1", TRUE, "", << >>, <<9, 5>>),
       DestCtx(1, "ctx-A", 200, "d1", TRUE, "", << >>, <<5, 9>>),
       DestCtx(1, "ctx-A", 100, "d1", TRUE, "", <<1>>, <<5, 9>>),
       DestCtx(2, "ctx-B", 100, "d2", TRUE, "", <<1, 2>>, << >>) >>

\* py: dict.get(key, default)
DictGet(d, key, default) == IF key \in DOMAIN d THEN d[key] ELSE default

\* py: d.get(key), None being the empty sequence and a value v being <<v>>.
PyGet(d, key) == IF key \in DOMAIN d THEN <<d[key]>> ELSE << >>

\* py: d.get(key) or []
GetOrEmpty(d, key) == IF key \in DOMAIN d THEN d[key] ELSE << >>

\* ------------------------------------------------- the destination server
\* The detail representation of a stored config context: assignment entries
\* are nested objects carrying the id, tag entries are bare ids.
Detail(c) ==
    [url |-> c.id, id |-> c.id, name |-> c.name, weight |-> c.weight, data |-> c.data,
     is_active |-> c.is_active, description |-> c.description]
    @@ [f \in FieldSet |->
          [i \in DOMAIN c.assign[f] |->
              IF f = "tags" THEN IntRef(c.assign[f][i])
              ELSE DictRef([id |-> c.assign[f][i]])]]

\* The id the server gives the next created object.
NextId(dest) ==
    IF dest = << >> THEN 1
    ELSE 1 + CHOOSE m \in {dest[i].id : i \in DOMAIN dest} :
                 \A i \in DOMAIN dest : dest[i].id <= m

\* POST to the collection: a new object holding the payload's fields.
ServerCreate(dest, payload) ==
    Append(dest,
        [id |-> NextId(dest), name |-> payload.name, weight |-> payload.weight,
         data |-> payload.data, is_active |-> payload.is_active,
         description |-> payload.description,
         assign |-> [f \in FieldSet |-> GetOrEmpty(payload, f)]])

\* PATCH to a detail URL: the fields present in the body replace the stored
\* ones, the others are kept.
ServerPatch(dest, url, payload) ==
    [i \in DOMAIN dest |->
        IF dest[i].id # url THEN dest[i]
        ELSE [id |-> dest[i].id, name |-> payload.name, weight |-> payload.weight,
              data |-> payload.data, is_active |-> payload.is_active,
              description |-> payload.description,
              assign |-> [f \in FieldSet |->
                            IF f \in DOMAIN payload THEN payload[f]
                            ELSE dest[i].assign[f]]]]

\* ------------------------------------------------------ find_context_by_name
\* Mutant: the name filter is not applied, the first object listed is taken.
find_context_by_name_unfiltered(dest, name, outcome) ==
    IF outcome # "ok" THEN << >>
    ELSE IF dest # << >> THEN <<Detail(dest[1])>> ELSE << >>

\* The first destination object with that name, or none; a failed request
\* (either kind) is logged and answered with none.
find_context_by_name(dest, name, outcome) ==
    IF outcome # "ok" THEN << >>
    ELSE LET data == SelectSeq(dest, LAMBDA c : c.name = name)
         IN  IF data # << >> THEN <<Detail(data[1])>> ELSE << >>

\* ---------------------------------------------------------- compare_contexts
\* py: the id of a destination list item (a dict with 'id'), else the item.
NormalizeItem(item) ==
    IF item.kind = "dict" /\ "id" \in DOMAIN item.d THEN item.d.id ELSE item.v

dst_ids(dest, field) ==
    LET dest_items == GetOrEmpty(dest, field)
    IN  [i \in DOMAIN dest_items |-> NormalizeItem(dest_items[i])]

\* Mutant: the lists are compared as sets, so duplicates collapse.
ListsDifferAsSets(src_list, ids) ==
    {src_list[i] : i \in DOMAIN src_list} # {ids[i] : i \in DOMAIN ids}

\* py: sorted(src_list) != sorted(dst_ids)
ListsDiffer(src_list, ids) == sorted(src_list) # sorted(ids)

\* TRUE iff the payload and the destination representation differ.
compare_contexts(source, dest) ==
    \/ \E key \in {"weight", "data", "is_active", "description"} :
           PyGet(source, key) # PyGet(dest, key)
    \/ \E i \in DOMAIN list_fields :
           ListsDiffer(sorted(GetOrEmpty(source, list_fields[i])),
                       dst_ids(dest, list_fields[i]))

\* --------------------------------------------------- map_assignments_to_dest
\* py: obj.get('slug') or obj.get('name') or str(obj.get('id')); str(obj)
Term(obj) ==
    IF obj.kind = "dict" THEN
         IF "slug" \in DOMAIN obj.d /\ obj.d.slug # "" THEN obj.d.slug
         ELSE IF "name" \in DOMAIN obj.d /\ obj.d.name # "" THEN obj.d.name
         ELSE IF "id" \in DOMAIN obj.d THEN ToString(obj.d.id)
         ELSE "None"
    ELSE ToString(obj.v)

\* The outcome of the n-th lookup request of one resolution under a plan.
LookupOutcome(plan, n) == IF plan.lkAt = n THEN plan.lkMode ELSE "ok"

\* Mutant: an integer tag is put in front of the ids resolved so far, and
\* object entries are dropped.
TagStepPrepend(obj, st, plan) ==
    IF obj.kind = "int" THEN [st EXCEPT !.ids = <<obj.v>> \o @] ELSE st

\* One tag entry: integers pass through, objects with a slug are looked up.
\* st = [ids, reqs, n, raised]
TagStep(obj, st, plan) ==
    IF obj.kind = "int" THEN [st EXCEPT !.ids = Append(@, obj.v)]
    ELSE IF obj.kind = "dict" /\ "slug" \in DOMAIN obj.d THEN
        LET n == st.n + 1
            req == Req("dst", "GET", TagsEndpoint, "slug", obj.d.slug, 0)
            results == QueryRefs(TagsEndpoint, "slug", obj.d.slug)
            sent == [st EXCEPT !.n = n, !.reqs = Append(@, req)]
        IN  IF LookupOutcome(plan, n) = "exc" THEN [sent EXCEPT !.raised = TRUE]
            ELSE IF LookupOutcome(plan, n) = "ok" /\ results # << >>
                 THEN [sent EXCEPT !.ids = Append(@, results[1].id)]
            ELSE sent
    ELSE st

\* One entry of a generic field: always looked up by its term.
GenericStep(field, obj, st, plan) ==
    LET n == st.n + 1
        term == Term(obj)
        req == Req("dst", "GET", lookup[field].endpoint, lookup[field].filter_key, term, 0)
        results == QueryRefs(lookup[field].endpoint, lookup[field].filter_key, term)
        sent == [st EXCEPT !.n = n, !.reqs = Append(@, req)]
    IN  IF LookupOutcome(plan, n) = "exc" THEN [sent EXCEPT !.raised = TRUE]
        ELSE IF LookupOutcome(plan, n) # "ok" \/ results = << >> THEN sent
        ELSE [sent EXCEPT !.ids = Append(@, results[1].id)]

RECURSIVE map_values(_, _, _, _, _)
\* The loop over the values of one field, from the i-th value on.
map_values(field, values, i, st, plan) ==
    IF i > Len(values) \/ st.raised THEN st
    ELSE map_values(field, values, i + 1,
                    IF field = "tags" THEN TagStep(values[i], st, plan)
                    ELSE GenericStep(field, values[i], st, plan),
                    plan)

RECURSIVE map_fields(_, _, _, _)
\* The loop over the fields, from the k-th on. st = [mapping, reqs, n, raised]
map_fields(assignments, k, st, plan) ==
    IF k > Len(list_fields) \/ st.raised THEN st
    ELSE LET field == list_fields[k]
             values == assignments[field]
         IN  IF values = << >> THEN map_fields(assignments, k + 1, st, plan)
             ELSE IF field # "tags" /\ field \notin DOMAIN lookup
                  THEN map_fields(assignments, k + 1, st, plan)
             ELSE LET r == map_values(field, values, 1,
                                      [ids |-> << >>, reqs |-> st.reqs, n |-> st.n,
                                       raised |-> FALSE], plan)
                  IN  map_fields(assignments, k + 1,
                          [mapping |-> IF r.raised THEN st.mapping
                                       ELSE st.mapping @@ (field :> r.ids),
                           reqs |-> r.reqs, n |-> r.n, raised |-> r.raised],
                          plan)

\* The mapping field -> destination ids, the requests made, and whether a
\* transport exception left the function.
map_assignments_to_dest(assignments, plan) ==
    map_fields(assignments, 1,
               [mapping |-> << >>, reqs |-> << >>, n |-> 0, raised |-> FALSE], plan)

\* -------------------------------------------------- create_or_update_context
\* What may go wrong in one call: the outcome of the name lookup, which
\* reference lookup fails (0: none) and how, the outcome of the detail
\* fetch and the outcome of the POST or PATCH.
NoFault == [find |-> "ok", lkAt |-> 0, lkMode |-> "status", detail |-> "ok", write |-> "ok"]

\* The 13 assignment fields of a source context, an empty list when missing.
AssignmentsOf(source_ctx) == [k \in FieldSet |-> DictGet(source_ctx, k, << >>)]

\* The number of reference lookups the resolution of a context makes.
NumLookups(source_ctx) == map_assignments_to_dest(AssignmentsOf(source_ctx), NoFault).n

\* The plans of one call; parts of a plan that no request can consume are
\* left at their defaults, so that every plan is a distinct course of events.
Plans(source_ctx) ==
    { p \in [find : Outcomes, lkAt : 0 .. NumLookups(source_ctx),
             lkMode : {"status", "exc"}, detail : Outcomes, write : Outcomes] :
        /\ p.lkAt = 0 => p.lkMode = "status"
        /\ p.detail # "ok" => p.write = "ok"
        /\ (p.lkAt > 0 /\ p.lkMode = "exc") => (p.detail = "ok" /\ p.write = "ok") }

\* The write payload: the scalar fields, then payload.update(mapping).
PayloadOf(source_ctx, mapping) ==
    mapping @@
    [name |-> source_ctx.name, weight |-> source_ctx.weight, data |-> source_ctx.data,
     is_active |-> DictGet(source_ctx, "is_active", TRUE),
     description |-> DictGet(source_ctx, "description", "")]

\* The except clause of the POST: requests.HTTPError only, so a transport
\* exception leaves the function ("raise").
PostResult(outcome) ==
    CASE outcome = "ok" -> "created"
      [] outcome = "status" -> "error"
      [] OTHER -> "raise"

\* The except clause of the PATCH: every Exception.
PatchResult(outcome) == IF outcome = "ok" THEN "updated" ELSE "error"

\* The detail fetch of a plan is at its default unless the call makes one:
\* it does when the name lookup succeeds and finds an object.
Consumed(source_ctx, dest, plan) ==
    (plan.find # "ok" \/ \A i \in DOMAIN dest : dest[i].name # source_ctx.name)
        => plan.detail = "ok"

\* One call: [result, dest, reqs], result being the returned outcome or
\* "raise" when an exception leaves the function.
create_or_update_context(source_ctx, dest, plan) ==
    LET name == source_ctx.name
        find_req == Req("dst", "GET", ContextsEndpoint, "name", name, 0)
        existing == find_context_by_name(dest, name, plan.find)
        m == map_assignments_to_dest(AssignmentsOf(source_ctx), plan)
        payload == PayloadOf(source_ctx, m.mapping)
        reqs0 == <<find_req>> \o m.reqs
    IN  IF m.raised THEN [result |-> "raise", dest |-> dest, reqs |-> reqs0]
        ELSE IF existing # << >> THEN
            LET url_detail == existing[1].url
                get_req == Req("dst", "GET", ContextsEndpoint, "detail", "", url_detail)
                dest_ctx == Detail(CHOOSE c \in {dest[i] : i \in DOMAIN dest} : c.id = url_detail)
                patch_req == Req("dst", "PATCH", ContextsEndpoint, "detail", "", url_detail)
                                 @@ [body |-> payload]
            IN  IF plan.detail # "ok"
                THEN [result |-> "error", dest |-> dest, reqs |-> Append(reqs0, get_req)]
                ELSE IF compare_contexts(payload, dest_ctx)
                THEN [result |-> PatchResult(plan.write),
                      dest |-> IF plan.write = "ok" THEN ServerPatch(dest, url_detail, payload)
                               ELSE dest,
                      reqs |-> reqs0 \o <<get_req, patch_req>>]
                ELSE [result |-> "skipped", dest |-> dest, reqs |-> Append(reqs0, get_req)]
        ELSE
            LET post_req == Req("dst", "POST", ContextsEndpoint, "list", name, 0)
                            @@ [body |-> payload]
            IN  [result |-> PostResult(plan.write),
                 dest |-> IF plan.write = "ok" THEN ServerCreate(dest, payload) ELSE dest,
                 reqs |-> Append(reqs0, post_req)]

\* The responses to the requests of one call, in the order of the requests:
\* the name lookup comes first, the reference lookups follow, then the
\* detail fetch and the write.
Responses(rs, plan) ==
    [i \in DOMAIN rs |->
        IF i = 1 THEN plan.find
        ELSE IF rs[i].method # "GET" THEN plan.write
        ELSE IF rs[i].key = "detail" THEN plan.detail
        ELSE LookupOutcome(plan, i - 1)]

\* ---------------------------------------------------- get_all_config_contexts
\* The response body of page k of a source collection: its results and the
\* link to the next page (0: none).
PageBody(pages, k) == [results |-> pages[k], next |-> IF k < Len(pages) THEN k + 1 ELSE 0]

PageReq(path, k) == Req("src", "GET", path, "page", "", k)

\* Mutant: the next link is not followed.
cc_paginate_first_page_only(pages, next, st, failAt) == st

RECURSIVE cc_paginate(_, _, _, _)
\* The while loop: follows next until it is absent or a fetch fails.
\* st = [contexts, reqs, exit]; failAt is the page whose fetch fails (0: none).
cc_paginate(pages, next, st, failAt) ==
    IF next = 0 THEN st
    ELSE LET sent == [st EXCEPT !.reqs = Append(@, PageReq(ContextsEndpoint, next))]
         IN  IF next = failAt THEN sent
             ELSE cc_paginate(pages, PageBody(pages, next).next,
                      [sent EXCEPT !.contexts = @ \o PageBody(pages, next).results],
                      failAt)

\* [contexts, reqs, exit]: exit is TRUE when the first fetch failed (sys.exit(1)).
get_all_config_contexts(pages, failAt) ==
    LET first == <<PageReq(ContextsEndpoint, 1)>>
    IN  IF failAt = 1 THEN [contexts |-> << >>, reqs |-> first, exit |-> TRUE]
        ELSE cc_paginate(pages, PageBody(pages, 1).next,
                 [contexts |-> PageBody(pages, 1).results, reqs |-> first, exit |-> FALSE],
                 failAt)

\* ------------------------------------------------ nb_migrate_local_context
OBJECT_TYPES ==
    [virtual_machine |-> [endpoint |-> "virtualization/virtual-machines"],
     device          |-> [endpoint |-> "dcim/devices"]]

\* py: truthiness of a local_context_data document (None and {} are falsy).
Truthy(doc) == doc \notin {"null", "{}"}

\* The entry kept for a source object.
EntryOf(obj_type, obj) ==
    [type |-> obj_type, id |-> obj.id, name |-> obj.name,
     local_context_data |-> obj.local_context_data]

\* The entries of one page: the objects that carry local context data.
PageEntries(obj_type, results) ==
    LET kept == SelectSeq(results, LAMBDA obj : Truthy(obj.local_context_data))
    IN  [i \in DOMAIN kept |-> EntryOf(obj_type, kept[i])]

RECURSIVE lc_paginate(_, _, _, _, _, _)
\* The while loop over the pages of one type. st = [results, reqs, raised]
lc_paginate(obj_type, pages, endpoint, st, failAt, mode) ==
    IF endpoint = 0 THEN st
    ELSE LET sent == [st EXCEPT !.reqs = Append(@, PageReq(OBJECT_TYPES[obj_type].endpoint, endpoint))]
         IN  IF endpoint = failAt
             THEN IF mode = "exc" THEN [sent EXCEPT !.raised = TRUE] ELSE sent
             ELSE lc_paginate(obj_type, pages, PageBody(pages, endpoint).next,
                      [sent EXCEPT !.results =
                           @ \o PageEntries(obj_type, PageBody(pages, endpoint).results)],
                      failAt, mode)

\* [results, reqs, raised]; fail gives, per type, the page whose fetch fails.
get_objects_with_local_context(pages, include_devices, fail, mode) ==
    LET vm == lc_paginate("virtual_machine", pages.virtual_machine, 1,
                          [results |-> << >>, reqs |-> << >>, raised |-> FALSE],
                          fail.virtual_machine, mode)
    IN  IF vm.raised \/ ~include_devices THEN vm
        ELSE lc_paginate("device", pages.device, 1, vm, fail.device, mode)

\* The destination objects of a type whose name is the one asked for.
QueryObjs(objs, obj_type, name) == SelectSeq(objs[obj_type], LAMBDA o : o.name = name)

\* Whether the destination holds an object of that type with that id.
HasObj(objs, obj_type, obj_id) == \E i \in DOMAIN objs[obj_type] : objs[obj_type][i].id = obj_id

ObjUrl(obj_type, obj_id) == [type |-> obj_type, id |-> obj_id]

\* Mutant: the id probe comes first, the name query only when it fails.
find_object_url_id_first(objs, entry, plan) ==
    LET endpoint == OBJECT_TYPES[entry.type].endpoint
        probe == Req("dst", "GET", endpoint, "detail", "", entry.id)
        name_req == Req("dst", "GET", endpoint, "name", entry.name, 0)
        results == QueryObjs(objs, entry.type, entry.name)
    IN  IF HasObj(objs, entry.type, entry.id)
        THEN [url |-> <<ObjUrl(entry.type, entry.id)>>, reqs |-> <<probe>>, raised |-> FALSE]
        ELSE IF results # << >>
        THEN [url |-> <<ObjUrl(entry.type, results[1].id)>>, reqs |-> <<probe, name_req>>,
              raised |-> FALSE]
        ELSE [url |-> << >>, reqs |-> <<probe, name_req>>, raised |-> FALSE]

\* [url, reqs, raised]: url is <<the detail URL>> or << >> (None).
find_object_url(objs, entry, plan) ==
    LET endpoint == OBJECT_TYPES[entry.type].endpoint
        name_req == Req("dst", "GET", endpoint, "name", entry.name, 0)
        results == QueryObjs(objs, entry.type, entry.name)
        probe == Req("dst", "GET", endpoint, "detail", "", entry.id)
    IN  IF plan.find = "exc"
        THEN [url |-> << >>, reqs |-> <<name_req>>, raised |-> TRUE]
        ELSE IF plan.find = "ok" /\ results # << >>
        THEN [url |-> <<ObjUrl(entry.type, results[1].id)>>, reqs |-> <<name_req>>,
              raised |-> FALSE]
        ELSE IF plan.detail = "exc"
        THEN [url |-> << >>, reqs |-> <<name_req, probe>>, raised |-> TRUE]
        ELSE IF plan.detail = "ok" /\ HasObj(objs, entry.type, entry.id)
        THEN [url |-> <<ObjUrl(entry.type, entry.id)>>, reqs |-> <<name_req, probe>>,
              raised |-> FALSE]
        ELSE [url |-> << >>, reqs |-> <<name_req, probe>>, raised |-> FALSE]

\* PATCH {local_context_data: doc} to a detail URL: that field is replaced,
\* every other field and every other object is kept.
ServerPatchObj(objs, url, body) ==
    [objs EXCEPT ![url.type] =
        [i \in DOMAIN @ |->
            IF @[i].id = url.id
            THEN [@[i] EXCEPT !.local_context_data = body.local_context_data]
            ELSE @[i]]]

\* Mutant: the body also carries the status field.
apply_local_context_with_status(objs, detail_url, local_data, outcome) ==
    LET payload == [local_context_data |-> local_data, status |-> "active"]
        req == Req("dst", "PATCH", OBJECT_TYPES[detail_url.type].endpoint, "detail", "",
                   detail_url.id) @@ [body |-> payload]
    IN  [ok |-> outcome = "ok",
         objs |-> IF outcome = "ok" THEN ServerPatchObj(objs, detail_url, payload) ELSE objs,
         reqs |-> <<req>>,
         raised |-> outcome = "exc"]

\* Mutant: the object is deleted instead of patched.
apply_local_context_delete(objs, detail_url, local_data, outcome) ==
    [ok |-> outcome = "ok",
     objs |-> [objs EXCEPT ![detail_url.type] = SelectSeq(@, LAMBDA o : o.id # detail_url.id)],
     reqs |-> << Req("dst", "DELETE", OBJECT_TYPES[detail_url.type].endpoint, "detail", "",
                     detail_url.id) >>,
     raised |-> outcome = "exc"]

\* [ok, objs, reqs, raised]
apply_local_context(objs, detail_url, local_data, outcome) ==
    LET payload == [local_context_data |-> local_data]
        req == Req("dst", "PATCH", OBJECT_TYPES[detail_url.type].endpoint, "detail", "",
                   detail_url.id) @@ [body |-> payload]
    IN  [ok |-> outcome = "ok",
         objs |-> IF outcome = "ok" THEN ServerPatchObj(objs, detail_url, payload) ELSE objs,
         reqs |-> <<req>>,
         raised |-> outcome = "exc"]

LcNoFault == [find |-> "ok", detail |-> "ok", write |-> "ok"]

\* The plans of one iteration of transfer_contexts.
LcPlans ==
    { p \in [find : Outcomes, detail : Outcomes, write : Outcomes] :
        /\ p.find = "exc" => (p.detail = "ok" /\ p.write = "ok")
        /\ p.detail = "exc" => p.write = "ok" }

\* The probe and the PATCH of a plan are at their defaults unless the
\* iteration makes them: the probe is made when the name query does not
\* resolve, the PATCH when the name query or the probe resolves.
LcConsumed(objs, entry, plan) ==
    LET byName == plan.find = "ok" /\ QueryObjs(objs, entry.type, entry.name) # << >>
        byId == plan.detail = "ok" /\ HasObj(objs, entry.type, entry.id)
    IN  /\ byName => plan.detail = "ok"
        /\ (~byName /\ ~byId) => plan.write = "ok"

\* One iteration of the loop of transfer_contexts:
\* [result, objs, reqs], result in "applied", "not_found", "patch_failed", "raise".
transfer_entry(objs, entry, plan) ==
    LET f == find_object_url(objs, entry, plan)
        a == apply_local_context(objs, f.url[1], entry.local_context_data, plan.write)
    IN  IF f.raised THEN [result |-> "raise", objs |-> objs, reqs |-> f.reqs]
        ELSE IF f.url = << >> THEN [result |-> "not_found", objs |-> objs, reqs |-> f.reqs]
        ELSE [result |-> IF a.raised THEN "raise"
                         ELSE IF a.ok THEN "applied" ELSE "patch_failed",
              objs |-> a.objs, reqs |-> f.reqs \o a.reqs]

\* The responses to the requests of one iteration of transfer_contexts.
LcResponses(rs, plan) ==
    [i \in DOMAIN rs |->
        IF rs[i].method # "GET" THEN plan.write
        ELSE IF rs[i].key = "detail" THEN plan.detail
        ELSE plan.find]

\* The responses to the page requests of a fetch: the page that fails
\* answers with mode, the others with "ok".
PageResponses(rs, failAt, mode) ==
    [i \in DOMAIN rs |-> IF rs[i].n = failAt THEN mode ELSE "ok"]

NoFetchFail == [cc |-> 0, virtual_machine |-> 0, device |-> 0]
NoFile == [written |-> FALSE, content |-> << >>]
NoObjs == [virtual_machine |-> << >>, device |-> << >>]
NoPages == [cc |-> << << >> >>, virtual_machine |-> << << >> >>, device |-> << << >> >>]

\* Source virtual machines and devices the runs draw from.
VmPool ==
    << [id |-> 42, name |-> "vm-7", local_context_data |-> "L1"],
       [id |-> 2,  name |-> "vm-8", local_context_data |-> "null"],
       [id |-> 3,  name |-> "vm-9", local_context_data |-> "L2"] >>

DevPool ==
    << [id |-> 42, name |-> "sw-1", local_context_data |-> "L3"],
       [id |-> 5,  name |-> "sw-2", local_context_data |-> "{}"] >>

DestObj(id, name, doc) ==
    [id |-> id, name |-> name, local_context_data |-> doc, status |-> "active"]

\* Destinations of a local-context run.
DestObjInits ==
    { NoObjs,
      [virtual_machine |-> << DestObj(7, "vm-7", "old") >>,
       device |-> << DestObj(42, "sw-1", "null") >>],
      [virtual_machine |-> << DestObj(42, "vm-x", "old") >>,
       device |-> << >>],
      [virtual_machine |-> << DestObj(42, "vm-x", "old"), DestObj(7, "vm-7", "null"),
                              DestObj(9, "vm-7", "L9") >>,
       device |-> << DestObj(42, "sw-0", "old") >>] }

\* ------------------------------------------------------------------ state
VARIABLES
    workflow,   \* "cc": nb_migrate_config_context, "lc": nb_migrate_local_context
    args,       \* the command line
    srcPages,   \* the source server: collection path -> its pages
    file,       \* the snapshot file: [written, content]
    dest,       \* the destination's config contexts, in listing order
    destObjs,   \* the destination's virtual machines and devices, by type
    data,       \* source_contexts (cc), data (lc)
    pc,         \* "start", "fetched", "ready", "done", "returned", "exit1", "raised"
    idx,        \* position of the reconciliation loop in data
    created, updated, skipped, applied,   \* the counters of the loops
    outcomes,   \* the outcome of each object processed so far, in order
    reqs,       \* the requests the last step issued, in order
    resps,      \* the outcome of each of these requests, in the same order
    summary,    \* the summary line, once logged
    run,        \* 1, or 2 after the script was started again
    fault,      \* some remote call of the last step has failed
    faults,     \* some remote call of some reconciliation step has failed
    fnIn,       \* the arguments of a function applied on its own
    fnOut,      \* its result
    fetchFail   \* per source collection, the page whose fetch failed (0: none)

vars == << workflow, args, srcPages, file, dest, destObjs, data, pc, idx,
           created, updated, skipped, applied, outcomes, reqs, resps, summary, run,
           fault, faults, fetchFail, fnIn, fnOut >>

RECURSIVE SeqOfIndexes(_)
\* The indexes of a set, ascending.
SeqOfIndexes(S) ==
    IF S = {} THEN << >>
    ELSE LET m == CHOOSE x \in S : \A y \in S : x <= y
         IN  <<m>> \o SeqOfIndexes(S \ {m})

\* The sub-sequences of pool of at most n entries with pairwise distinct names.
Picks(pool, n) ==
    { [i \in DOMAIN SeqOfIndexes(S) |-> pool[SeqOfIndexes(S)[i]]] :
        S \in { T \in SUBSET DOMAIN pool :
                  /\ Cardinality(T) <= n
                  /\ \A a, b \in T : a # b => pool[a].name # pool[b].name } }

RECURSIVE Chunk(_, _)
\* A listing served in pages of at most size items (at least one page).
Chunk(items, size) ==
    IF Len(items) <= size THEN <<items>>
    ELSE <<SubSeq(items, 1, size)>> \o Chunk(SubSeq(items, size + 1, Len(items)), size)


\* A run of nb_migrate_config_context.py main().
InitCC ==
    /\ workflow = "cc"
    /\ args \in [import_file : BOOLEAN, export_file : BOOLEAN]
    /\ \E items \in Picks(SrcPool, MaxSrc), size \in 1 .. MaxSrc :
          IF args.import_file
          THEN /\ size = 1
               /\ srcPages = NoPages
               /\ file = [written |-> TRUE, content |-> items]
          ELSE /\ srcPages = [NoPages EXCEPT !.cc = Chunk(items, size)]
               /\ file = NoFile
    /\ dest \in Picks(DestPool, Len(DestPool))
    /\ destObjs = NoObjs
    /\ data = << >>
    /\ pc = "start"
    /\ idx = 1
    /\ created = 0 /\ updated = 0 /\ skipped = 0 /\ applied = 0
    /\ outcomes = << >>
    /\ reqs = << >> /\ resps = << >>
    /\ summary = << >>
    /\ run = 1
    /\ fault = FALSE /\ faults = FALSE
    /\ fnIn = << >> /\ fnOut = << >>
    /\ fetchFail = NoFetchFail

\* main(): --import-file given: json.load of the file, exit on failure.
cc_import ==
    /\ workflow = "cc" /\ pc = "start" /\ args.import_file
    /\ \E ok \in BOOLEAN :
          /\ data' = IF ok THEN file.content ELSE data
          /\ pc' = IF ok THEN "ready" ELSE "exit1"
    /\ reqs' = << >> /\ resps' = << >>
    /\ UNCHANGED << workflow, args, srcPages, file, dest, destObjs, idx, created, updated,
                    skipped, applied, outcomes, summary, run, fault, faults, fetchFail,
                    fnIn, fnOut >>

\* main(): source_contexts = get_all_config_contexts(...)
cc_fetch ==
    /\ workflow = "cc" /\ pc = "start" /\ ~args.import_file
    /\ \E failAt \in 0 .. Len(srcPages.cc), mode \in {"status", "exc"} :
          LET r == get_all_config_contexts(srcPages.cc, failAt)
          IN  /\ failAt = 0 => mode = "status"
              /\ data' = r.contexts
              /\ reqs' = r.reqs
              /\ resps' = PageResponses(r.reqs, failAt, mode)
              /\ pc' = IF r.exit THEN "exit1" ELSE "fetched"
              /\ fetchFail' = [NoFetchFail EXCEPT !.cc = failAt]
    /\ UNCHANGED << workflow, args, srcPages, file, dest, destObjs, idx, created, updated,
                    skipped, applied, outcomes, summary, run, fault, faults, fnIn, fnOut >>

\* main(): --export-file given: dump the contexts and return; a failed write
\* is logged.
cc_export ==
    /\ workflow = "cc" /\ pc = "fetched" /\ args.export_file
    /\ \E ok \in BOOLEAN :
          file' = IF ok THEN [written |-> TRUE, content |-> data] ELSE file
    /\ pc' = "returned"
    /\ reqs' = << >> /\ resps' = << >>
    /\ UNCHANGED << workflow, args, srcPages, dest, destObjs, data, idx, created, updated,
                    skipped, applied, outcomes, summary, run, fault, faults, fetchFail,
                    fnIn, fnOut >>

\* Mutant: a failed connection test is logged and the run goes on.
cc_precheck_ignored ==
    /\ workflow = "cc" /\ pc = "fetched" /\ ~args.export_file
    /\ \E outcome \in Outcomes :
          /\ pc' = "ready"
          /\ resps' = << outcome >>
          /\ fault' = (outcome # "ok")
    /\ reqs' = << Req("dst", "GET", ContextsEndpoint, "limit", "", 1) >>
    /\ UNCHANGED << workflow, args, srcPages, file, dest, destObjs, data, idx, created,
                    updated, skipped, applied, outcomes, summary, run, faults,
                    fetchFail, fnIn, fnOut >>

\* main(): the destination connection test, exit on failure.
cc_precheck ==
    /\ workflow = "cc" /\ pc = "fetched" /\ ~args.export_file
    /\ \E outcome \in Outcomes :
          /\ pc' = IF outcome = "ok" THEN "ready" ELSE "exit1"
          /\ resps' = << outcome >>
          /\ fault' = (outcome # "ok")
    /\ reqs' = << Req("dst", "GET", ContextsEndpoint, "limit", "", 1) >>
    /\ UNCHANGED << workflow, args, srcPages, file, dest, destObjs, data, idx, created,
                    updated, skipped, applied, outcomes, summary, run, faults,
                    fetchFail, fnIn, fnOut >>

\* Mutant: every outcome is counted.
TallyEvery(counter, result, which) == counter + 1

\* main(): the if/elif chain of the loop: a counter moves on its own outcome.
Tally(counter, result, which) == IF result = which THEN counter + 1 ELSE counter

\* Mutant: the loop is left at the first object whose outcome is "error".
cc_reconcile_stop_on_error ==
    /\ workflow = "cc" /\ pc = "ready" /\ idx <= Len(data)
    /\ \E plan \in (IF run = 2 THEN {NoFault} ELSE Plans(data[idx])) :
          /\ Consumed(data[idx], dest, plan)
          /\ \E r \in {create_or_update_context(data[idx], dest, plan)} :
              /\ dest' = r.dest
              /\ reqs' = r.reqs
              /\ resps' = Responses(r.reqs, plan)
              /\ outcomes' = Append(outcomes, r.result)
              /\ created' = Tally(created, r.result, "created")
              /\ updated' = Tally(updated, r.result, "updated")
              /\ skipped' = Tally(skipped, r.result, "skipped")
              /\ pc' = IF r.result \in {"raise", "error"} THEN "raised" ELSE "ready"
              /\ fault' = (plan # NoFault)
              /\ faults' = (faults \/ plan # NoFault)
    /\ idx' = idx + 1
    /\ UNCHANGED << workflow, args, srcPages, file, destObjs, data, applied, summary, run,
                    fetchFail, fnIn, fnOut >>

\* main(): one iteration of the loop over source_contexts.
cc_reconcile ==
    /\ workflow = "cc" /\ pc = "ready" /\ idx <= Len(data)
    /\ \E plan \in (IF run = 2 THEN {NoFault} ELSE Plans(data[idx])) :
          /\ Consumed(data[idx], dest, plan)
          /\ \E r \in {create_or_update_context(data[idx], dest, plan)} :
              /\ dest' = r.dest
              /\ reqs' = r.reqs
              /\ resps' = Responses(r.reqs, plan)
              /\ outcomes' = Append(outcomes, r.result)
              /\ created' = Tally(created, r.result, "created")
              /\ updated' = Tally(updated, r.result, "updated")
              /\ skipped' = Tally(skipped, r.result, "skipped")
              /\ pc' = IF r.result = "raise" THEN "raised" ELSE "ready"
              /\ fault' = (plan # NoFault)
              /\ faults' = (faults \/ plan # NoFault)
    /\ idx' = idx + 1
    /\ UNCHANGED << workflow, args, srcPages, file, destObjs, data, applied, summary, run,
                    fetchFail, fnIn, fnOut >>

\* main(): the loop is over, the summary line is logged.
cc_summary ==
    /\ workflow = "cc" /\ pc = "ready" /\ idx > Len(data)
    /\ summary' = << [created |-> created, updated |-> updated, skipped |-> skipped] >>
    /\ pc' = "done"
    /\ reqs' = << >> /\ resps' = << >>
    /\ UNCHANGED << workflow, args, srcPages, file, dest, destObjs, data, idx, created,
                    updated, skipped, applied, outcomes, run, fault, faults, fetchFail,
                    fnIn, fnOut >>

\* The script is started a second time on the same source contexts, after a
\* first run in which every remote call succeeded.
cc_rerun ==
    /\ workflow = "cc" /\ pc = "done" /\ run = 1 /\ ~faults
    /\ run' = 2
    /\ pc' = "ready"
    /\ idx' = 1
    /\ created' = 0 /\ updated' = 0 /\ skipped' = 0
    /\ outcomes' = << >>
    /\ summary' = << >>
    /\ reqs' = << >> /\ resps' = << >>
    /\ UNCHANGED << workflow, args, srcPages, file, dest, destObjs, data, applied, fault,
                    faults, fetchFail, fnIn, fnOut >>

\* The entries a file exported from these objects holds.
EntriesOf(vms, devs) == PageEntries("virtual_machine", vms) \o PageEntries("device", devs)

\* A run of nb_migrate_local_context.py main().
InitLC ==
    /\ workflow = "lc"
    /\ args \in { a \in [command : {"export", "import", "transfer"},
                        include_devices : BOOLEAN] :
                    a.command = "import" => ~a.include_devices }
    /\ \E vms \in Picks(VmPool, MaxObjs), devs \in Picks(DevPool, MaxObjs),
          size \in 1 .. MaxObjs :
          IF args.command = "import"
          THEN /\ size = 1
               /\ srcPages = NoPages
               /\ file = [written |-> TRUE, content |-> EntriesOf(vms, devs)]
          ELSE /\ srcPages = [NoPages EXCEPT !.virtual_machine = Chunk(vms, size),
                                             !.device = Chunk(devs, size)]
               /\ file = NoFile
    /\ dest = << >>
    /\ destObjs \in (IF args.command = "export" THEN {NoObjs} ELSE DestObjInits)
    /\ data = << >>
    /\ pc = "start"
    /\ idx = 1
    /\ created = 0 /\ updated = 0 /\ skipped = 0 /\ applied = 0
    /\ outcomes = << >>
    /\ reqs = << >> /\ resps = << >>
    /\ summary = << >>
    /\ run = 1
    /\ fault = FALSE /\ faults = FALSE
    /\ fnIn = << >> /\ fnOut = << >>
    /\ fetchFail = NoFetchFail

\* main(), export and transfer: data = get_objects_with_local_context(...)
lc_fetch ==
    /\ workflow = "lc" /\ pc = "start" /\ args.command # "import"
    /\ \E fv \in 0 .. Len(srcPages.virtual_machine), fd \in 0 .. Len(srcPages.device),
          mode \in {"status", "exc"} :
          LET fail == [NoFetchFail EXCEPT !.virtual_machine = fv, !.device = fd]
          IN  /\ (fv = 0 /\ fd = 0) => mode = "status"
              /\ ~args.include_devices => fd = 0
              /\ (mode = "exc" /\ fv # 0) => fd = 0
              /\ \E r \in {get_objects_with_local_context(srcPages, args.include_devices,
                                                            fail, mode)} :
                  /\ data' = r.results
                  /\ reqs' = r.reqs
                  /\ resps' = [i \in DOMAIN r.reqs |->
                                 IF r.reqs[i].n = fail[IF r.reqs[i].path = OBJECT_TYPES.device.endpoint
                                                       THEN "device" ELSE "virtual_machine"]
                                 THEN mode ELSE "ok"]
                  /\ pc' = IF r.raised THEN "raised"
                           ELSE IF args.command = "export" THEN "fetched" ELSE "ready"
                  /\ fetchFail' = fail
    /\ UNCHANGED << workflow, args, srcPages, file, dest, destObjs, idx, created, updated,
                    skipped, applied, outcomes, summary, run, fault, faults, fnIn, fnOut >>

\* main(), export: export_to_file(data, output), exit on a failed write.
lc_export ==
    /\ workflow = "lc" /\ pc = "fetched"
    /\ \E ok \in BOOLEAN :
          /\ file' = IF ok THEN [written |-> TRUE, content |-> data] ELSE file
          /\ pc' = IF ok THEN "returned" ELSE "exit1"
    /\ reqs' = << >> /\ resps' = << >>
    /\ UNCHANGED << workflow, args, srcPages, dest, destObjs, data, idx, created, updated,
                    skipped, applied, outcomes, summary, run, fault, faults, fetchFail,
                    fnIn, fnOut >>

\* main(), import: data = import_from_file(input), exit on a failed read.
lc_import ==
    /\ workflow = "lc" /\ pc = "start" /\ args.command = "import"
    /\ \E ok \in BOOLEAN :
          /\ data' = IF ok THEN file.content ELSE data
          /\ pc' = IF ok THEN "ready" ELSE "exit1"
    /\ reqs' = << >> /\ resps' = << >>
    /\ UNCHANGED << workflow, args, srcPages, file, dest, destObjs, idx, created, updated,
                    skipped, applied, outcomes, summary, run, fault, faults, fetchFail,
                    fnIn, fnOut >>

\* transfer_contexts(): one iteration of the loop over source_data.
lc_transfer ==
    /\ workflow = "lc" /\ pc = "ready" /\ idx <= Len(data)
    /\ \E plan \in LcPlans :
          /\ LcConsumed(destObjs, data[idx], plan)
          /\ \E r \in {transfer_entry(destObjs, data[idx], plan)} :
              /\ destObjs' = r.objs
              /\ reqs' = r.reqs
              /\ resps' = LcResponses(r.reqs, plan)
              /\ outcomes' = Append(outcomes, r.result)
              /\ applied' = IF r.result = "applied" THEN applied + 1 ELSE applied
              /\ pc' = IF r.result = "raise" THEN "raised" ELSE "ready"
              /\ fault' = (plan # LcNoFault)
              /\ faults' = (faults \/ plan # LcNoFault)
    /\ idx' = idx + 1
    /\ UNCHANGED << workflow, args, srcPages, file, dest, data, created, updated, skipped,
                    summary, run, fetchFail, fnIn, fnOut >>

\* Mutant: the failed count is read from the counter 'skipped'.
lc_summary_skipped ==
    /\ workflow = "lc" /\ pc = "ready" /\ idx > Len(data)
    /\ summary' = << [applied |-> applied, failed |-> skipped] >>
    /\ pc' = "done"
    /\ reqs' = << >> /\ resps' = << >>
    /\ UNCHANGED << workflow, args, srcPages, file, dest, destObjs, data, idx, created,
                    updated, skipped, applied, outcomes, run, fault, faults, fetchFail,
                    fnIn, fnOut >>

\* transfer_contexts(): the loop is over, "Done: applied, total - applied failed".
lc_summary ==
    /\ workflow = "lc" /\ pc = "ready" /\ idx > Len(data)
    /\ summary' = << [applied |-> applied, failed |-> Len(data) - applied] >>
    /\ pc' = "done"
    /\ reqs' = << >> /\ resps' = << >>
    /\ UNCHANGED << workflow, args, srcPages, file, dest, destObjs, data, idx, created,
                    updated, skipped, applied, outcomes, run, fault, faults, fetchFail,
                    fnIn, fnOut >>

Init == InitCC \/ InitLC

Next ==
    \/ cc_import
    \/ cc_fetch
    \/ cc_export
    \/ cc_precheck
    \/ cc_reconcile
    \/ cc_summary
    \/ cc_rerun
    \/ lc_fetch
    \/ lc_export
    \/ lc_import
    \/ lc_transfer
    \/ lc_summary

Spec == Init /\ [][Next]_vars

\* ------------------------------------------- compare_contexts on its own
\* The sequences over S of length at most n.
SeqsUpTo(S, n) == UNION { [1 .. k -> S] : k \in 0 .. n }

BasePayload ==
    [name |-> "ctx-A", weight |-> 100, data |-> "d1", is_active |-> TRUE, description |-> ""]

\* The scalar fields of a destination representation that differs from
\* BasePayload in the given key ("none": in no key).
DestScalars(key) ==
    [BasePayload EXCEPT
        !.weight = IF key = "weight" THEN 200 ELSE @,
        !.data = IF key = "data" THEN "d2" ELSE @,
        !.is_active = IF key = "is_active" THEN FALSE ELSE @,
        !.description = IF key = "description" THEN "x" ELSE @]

\* Entries of a destination list: bare ids and nested objects with an id.
DestItems == { IntRef(1), IntRef(2), DictRef([id |-> 1]), DictRef([id |-> 2, slug |-> "b"]) }

InitDiff ==
    /\ workflow = "diff"
    /\ \E key \in {"none", "weight", "data", "is_active", "description"},
          field \in FieldSet,
          src_list \in SeqsUpTo({1, 2}, MaxLen),
          dest_items \in SeqsUpTo(DestItems, MaxLen) :
          fnIn = [source |-> (field :> src_list) @@ BasePayload,
                  dest |-> DestScalars(key) @@ [EmptyAssignments EXCEPT ![field] = dest_items],
                  field |-> field]
    /\ fnOut = << >>
    /\ args = << >> /\ srcPages = NoPages /\ file = NoFile /\ dest = << >>
    /\ destObjs = NoObjs /\ data = << >> /\ pc = "start" /\ idx = 1
    /\ created = 0 /\ updated = 0 /\ skipped = 0 /\ applied = 0
    /\ outcomes = << >> /\ reqs = << >> /\ resps = << >> /\ summary = << >> /\ run = 1
    /\ fault = FALSE /\ faults = FALSE /\ fetchFail = NoFetchFail

\* compare_contexts(source, dest) is called.
diff_compare ==
    /\ workflow = "diff" /\ pc = "start"
    /\ fnOut' = << compare_contexts(fnIn.source, fnIn.dest) >>
    /\ pc' = "done"
    /\ UNCHANGED << workflow, args, srcPages, file, dest, destObjs, data, idx, created,
                    updated, skipped, applied, outcomes, reqs, resps, summary, run, fault,
                    faults, fetchFail, fnIn >>

SpecDiff == InitDiff /\ [][diff_compare]_vars

\* ------------------------------------ map_assignments_to_dest on its own
\* Raw reference values of a source context.
RefPool ==
    { IntRef(5), DictRef([slug |-> "prod", id |-> 30]), DictRef([slug |-> "a"]),
      DictRef([slug |-> "b"]), DictRef([name |-> "c1"]), DictRef([id |-> 7]) }

InitResolve ==
    /\ workflow = "resolve"
    /\ \E field \in FieldSet, values \in SeqsUpTo(RefPool, MaxLen) :
          fnIn = [field |-> field, values |-> values]
    /\ fnOut = << >>
    /\ args = << >> /\ srcPages = NoPages /\ file = NoFile /\ dest = << >>
    /\ destObjs = NoObjs /\ data = << >> /\ pc = "start" /\ idx = 1
    /\ created = 0 /\ updated = 0 /\ skipped = 0 /\ applied = 0
    /\ outcomes = << >> /\ reqs = << >> /\ resps = << >> /\ summary = << >> /\ run = 1
    /\ fault = FALSE /\ faults = FALSE /\ fetchFail = NoFetchFail

\* map_assignments_to_dest(assignments, ...) is called with one field set.
resolve_map ==
    /\ workflow = "resolve" /\ pc = "start"
    /\ \E lkAt \in 0 .. Len(fnIn.values), lkMode \in {"status", "exc"} :
          LET plan == [NoFault EXCEPT !.lkAt = lkAt, !.lkMode = lkMode]
              r == map_assignments_to_dest(
                       [EmptyAssignments EXCEPT ![fnIn.field] = fnIn.values], plan)
          IN  /\ lkAt = 0 => lkMode = "status"
              /\ lkAt <= r.n
              /\ fnOut' = << [mapping |-> r.mapping, raised |-> r.raised, plan |-> plan] >>
              /\ reqs' = r.reqs
              /\ resps' = [i \in DOMAIN r.reqs |-> LookupOutcome(plan, i)]
              /\ fault' = (lkAt # 0)
    /\ pc' = "done"
    /\ UNCHANGED << workflow, args, srcPages, file, dest, destObjs, data, idx, created,
                    updated, skipped, applied, outcomes, summary, run, faults, fetchFail,
                    fnIn >>

SpecResolve == InitResolve /\ [][resolve_map]_vars

\* ================================================================ claims
CountOutcome(os, v) == Cardinality({i \in DOMAIN os : os[i] = v})
ReqsOf(rs, method) == SelectSeq(rs, LAMBDA r : r.method = method)
LastOutcome == outcomes[Len(outcomes)]

\* C1: when the reconciliation loop is run a second time, with no failure
\* and no outside change since the first run, every outcome of the second
\* run is "skipped" and it issues no POST or PATCH.
C1_SecondRunAllSkipped ==
    (workflow = "cc" /\ run = 2) =>
        /\ \A i \in DOMAIN outcomes : outcomes[i] = "skipped"
        /\ \A i \in DOMAIN reqs : reqs[i].method = "GET"

\* The stored object holds what the payload holds: equal scalar fields and,
\* per assignment field, the same ids with the same multiplicities.
SameAsPayload(stored, payload) ==
    /\ stored.weight = payload.weight /\ stored.data = payload.data
    /\ stored.is_active = payload.is_active /\ stored.description = payload.description
    /\ \A f \in FieldSet : BagOf(GetOrEmpty(payload, f)) = BagOf(stored.assign[f])

\* The payload of a call in which every lookup succeeds.
FaultFreePayload(source_ctx) ==
    PayloadOf(source_ctx, map_assignments_to_dest(AssignmentsOf(source_ctx), NoFault).mapping)

\* C2: in a call of create_or_update_context in which every remote call
\* succeeds: (a) no destination object of that name: one POST, no PATCH,
\* "created"; (b) the first object of that name holds what the payload
\* holds: no POST, no PATCH, "skipped"; (c) it differs: one PATCH to its
\* detail URL, no POST, "updated".
C2_CreateVsUpdate ==
    [][ (workflow = "cc" /\ pc = "ready" /\ idx <= Len(data) /\ idx' = idx + 1 /\ ~fault') =>
        LET ctx == data[idx]
            named == SelectSeq(dest, LAMBDA c : c.name = ctx.name)
            result == outcomes'[Len(outcomes')]
            posts == ReqsOf(reqs', "POST")
            patches == ReqsOf(reqs', "PATCH")
        IN  /\ named = << >> =>
                  result = "created" /\ Len(posts) = 1 /\ patches = << >>
            /\ (named # << >> /\ SameAsPayload(named[1], FaultFreePayload(ctx))) =>
                  result = "skipped" /\ posts = << >> /\ patches = << >> /\ dest' = dest
            /\ (named # << >> /\ ~SameAsPayload(named[1], FaultFreePayload(ctx))) =>
                  /\ result = "updated" /\ posts = << >> /\ Len(patches) = 1
                  /\ patches[1].key = "detail" /\ patches[1].n = named[1].id
      ]_vars

\* A run without failures in which one context was updated and one created.
C2_Witness ==
    /\ workflow = "cc" /\ ~faults /\ run = 1
    /\ outcomes = << "updated", "created" >>
    /\ ReqsOf(reqs, "POST") # << >>

RECURSIVE SumLen(_)
SumLen(pages) == IF pages = << >> THEN 0 ELSE Len(Head(pages)) + SumLen(Tail(pages))

\* C3: when every page fetch succeeds, get_all_config_contexts returns the
\* pages' results concatenated in page order, each item once, as many as
\* the pages hold together, with one request per page.
C3_PaginationComplete ==
    (workflow = "cc" /\ pc = "fetched" /\ fetchFail.cc = 0) =>
        /\ data = Flatten(srcPages.cc)
        /\ Len(data) = SumLen(srcPages.cc)
        /\ \A k \in DOMAIN srcPages.cc : \A j \in DOMAIN srcPages.cc[k] :
              Cardinality({i \in DOMAIN data : data[i] = srcPages.cc[k][j]}) = 1
        /\ reqs = [k \in DOMAIN srcPages.cc |-> PageReq(ContextsEndpoint, k)]

\* A listing of two pages or more was fetched whole.
C3_Witness ==
    /\ workflow = "cc" /\ pc = "fetched" /\ fetchFail.cc = 0
    /\ Len(srcPages.cc) >= 2 /\ Len(data) >= 2

\* The requests of the last step to one source collection.
PageReqsTo(path) == SelectSeq(reqs, LAMBDA r : r.host = "src" /\ r.path = path)

\* The last step was the fetch of the source listing.
JustFetched == reqs # << >> /\ reqs[1].host = "src"

\* C4: when the fetch of page k >= 2 of a source collection fails, the
\* pages 1..k of it were requested once each and no later one, the fetcher
\* returns the results of pages 1..k-1, and the run goes on with them.
C4_PartialPagination ==
    /\ (workflow = "cc" /\ JustFetched /\ fetchFail.cc >= 2) =>
          /\ pc = "fetched"
          /\ data = Flatten(SubSeq(srcPages.cc, 1, fetchFail.cc - 1))
          /\ reqs = [k \in 1 .. fetchFail.cc |-> PageReq(ContextsEndpoint, k)]
    /\ (workflow = "lc" /\ JustFetched /\ fetchFail.virtual_machine >= 2) =>
          /\ pc \in {"fetched", "ready"}
          /\ SelectSeq(data, LAMBDA e : e.type = "virtual_machine")
               = PageEntries("virtual_machine",
                     Flatten(SubSeq(srcPages.virtual_machine, 1,
                                    fetchFail.virtual_machine - 1)))
          /\ PageReqsTo(OBJECT_TYPES.virtual_machine.endpoint)
               = [k \in 1 .. fetchFail.virtual_machine |->
                     PageReq(OBJECT_TYPES.virtual_machine.endpoint, k)]

\* C5: no failure of a remote call made for one object ends the run: the
\* loop is never left by an exception.
C5_BatchNeverAborted ==
    ~(workflow \in {"cc", "lc"} /\ pc = "raised" /\ outcomes # << >>)

\* C6: when the first page of a source listing cannot be fetched the process
\* ends there: nothing is asked of the destination, no snapshot file is
\* written and no summary is logged.
C6_FirstPageFatal ==
    (workflow \in {"cc", "lc"} /\
     (fetchFail.cc = 1 \/ fetchFail.virtual_machine = 1 \/ fetchFail.device = 1)) =>
        /\ pc \in {"exit1", "raised"}
        /\ ~file.written
        /\ summary = << >>
        /\ \A i \in DOMAIN reqs : reqs[i].host = "src"

\* The ids of a destination list: the id of an object, a bare id itself.
IdsOf(items) ==
    [i \in DOMAIN items |-> IF items[i].kind = "dict" THEN items[i].d.id ELSE items[i].v]

\* C7: compare_contexts reports a difference exactly when one of weight,
\* data, is_active, description differs or, for one of the 13 fields, the
\* payload's ids and the destination's ids are not the same multiset: order
\* is ignored, duplicates count.
C7_DiffEngine ==
    (workflow = "diff" /\ pc = "done") =>
        LET src == fnIn.source
            dst == fnIn.dest
            scalars == \E key \in {"weight", "data", "is_active", "description"} :
                          src[key] # dst[key]
            lists == \E f \in FieldSet : BagOf(GetOrEmpty(src, f)) # BagOf(IdsOf(dst[f]))
            f0 == fnIn.field
        IN  /\ fnOut = << scalars \/ lists >>
            /\ (~scalars /\ src[f0] = <<1, 1>> /\ dst[f0] = << IntRef(1) >>) => fnOut = <<TRUE>>
            /\ (~scalars /\ src[f0] = <<2, 1>>
                /\ dst[f0] = << DictRef([id |-> 1]), DictRef([id |-> 2, slug |-> "b"]) >>)
                  => fnOut = <<FALSE>>

\* A duplicate on the payload's side only was reported as a difference.
C7_Witness ==
    /\ workflow = "diff" /\ pc = "done" /\ fnOut = <<TRUE>>
    /\ fnIn.source[fnIn.field] = <<1, 1>>
    /\ fnIn.dest[fnIn.field] = << DictRef([id |-> 1]) >>
    /\ fnIn.dest.weight = fnIn.source.weight /\ fnIn.dest.data = fnIn.source.data
    /\ fnIn.dest.is_active = fnIn.source.is_active
    /\ fnIn.dest.description = fnIn.source.description

\* What a tag entry resolves to when no lookup fails.
TagIds(obj) ==
    IF obj.kind = "int" THEN <<obj.v>>
    ELSE IF "slug" \in DOMAIN obj.d /\ QueryRefs(TagsEndpoint, "slug", obj.d.slug) # << >>
         THEN << QueryRefs(TagsEndpoint, "slug", obj.d.slug)[1].id >>
    ELSE << >>

\* The object entries of a tag list that carry a slug, in order.
SlugEntries(values) ==
    SelectSeq(values, LAMBDA obj : obj.kind = "dict" /\ "slug" \in DOMAIN obj.d)

\* C8: for 'tags', when no lookup fails: the output holds, in input order,
\* every integer entry unchanged and, for every object entry with a slug the
\* destination knows, the id of the first result of the slug query; the only
\* requests are one slug query on the tag endpoint per object entry with a
\* slug. tags [5, {slug: prod}] resolves to [5, 9].
C8_TagPassthrough ==
    (workflow = "resolve" /\ pc = "done" /\ fnIn.field = "tags" /\ fnIn.values # << >>
     /\ ~fault) =>
        /\ fnOut[1].mapping["tags"] =
              Flatten([i \in DOMAIN fnIn.values |-> TagIds(fnIn.values[i])])
        /\ reqs = [i \in DOMAIN SlugEntries(fnIn.values) |->
                     Req("dst", "GET", TagsEndpoint, "slug", SlugEntries(fnIn.values)[i].d.slug, 0)]
        /\ fnIn.values = << IntRef(5), DictRef([slug |-> "prod", id |-> 30]) >>
              => fnOut[1].mapping["tags"] = <<5, 9>>

\* tags [5, {slug: prod}] was resolved to [5, 9] with one request.
C8_Witness ==
    /\ workflow = "resolve" /\ pc = "done" /\ fnIn.field = "tags" /\ ~fault
    /\ fnIn.values = << IntRef(5), DictRef([slug |-> "prod", id |-> 30]) >>
    /\ fnOut[1].mapping["tags"] = <<5, 9>>
    /\ Len(reqs) = 1

\* The detail probes among the requests of the last step.
Probes == SelectSeq(reqs, LAMBDA r : r.method = "GET" /\ r.key = "detail")

\* C9: in an iteration of transfer_contexts: the name query comes first and
\* at most one PATCH is issued; when no remote call fails, the PATCH goes to
\* the first destination object of the entry's type with the entry's name
\* and no probe is made; only without such a match is <collection>/<id>/
\* probed, and the PATCH goes to that URL when the object exists; when
\* neither resolves, no PATCH is issued.
C9_ResolutionOrder ==
    (workflow = "lc" /\ pc \in {"ready", "raised"} /\ idx > 1) =>
        LET e == data[idx - 1]
            matches == SelectSeq(destObjs[e.type], LAMBDA o : o.name = e.name)
            patches == ReqsOf(reqs, "PATCH")
            byId == HasObj(destObjs, e.type, e.id)
            endpoint == OBJECT_TYPES[e.type].endpoint
        IN  /\ reqs[1] = Req("dst", "GET", endpoint, "name", e.name, 0)
            /\ Len(patches) <= 1
            /\ LastOutcome = "not_found" => patches = << >>
            /\ ~fault =>
                 /\ matches # << >> =>
                       /\ Probes = << >>
                       /\ Len(patches) = 1 /\ patches[1].path = endpoint
                       /\ patches[1].n = matches[1].id
                 /\ (matches = << >> /\ byId) =>
                       /\ Probes = << Req("dst", "GET", endpoint, "detail", "", e.id) >>
                       /\ Len(patches) = 1 /\ patches[1].path = endpoint
                       /\ patches[1].n = e.id
                 /\ (matches = << >> /\ ~byId) =>
                       /\ Len(Probes) = 1
                       /\ patches = << >> /\ LastOutcome = "not_found"

\* No object is named vm-7, the object with id 42 was probed and patched.
C9_Witness ==
    /\ workflow = "lc" /\ pc = "ready" /\ idx > 1 /\ ~fault
    /\ data[idx - 1].name = "vm-7" /\ data[idx - 1].id = 42
    /\ SelectSeq(destObjs.virtual_machine, LAMBDA o : o.name = "vm-7") = << >>
    /\ LastOutcome = "applied"
    /\ Len(Probes) = 1
    /\ ReqsOf(reqs, "PATCH")[1].n = 42

\* The error count of the summary line (0 when it reports none).
ErrorsReported == IF "error" \in DOMAIN summary[1] THEN summary[1].error ELSE 0

\* C10 as claimed: the counters of the summary, the error count among them,
\* sum to the number of source objects processed.
C10_FourCountersSum ==
    (workflow = "cc" /\ pc = "done") =>
        summary[1].created + summary[1].updated + summary[1].skipped + ErrorsReported
            = Len(outcomes)

\* C10 as amended: the summary reports created, updated and skipped only,
\* each the number of objects with that outcome; together they are the
\* number of objects processed less those whose outcome was "error".
C10_ThreeCounters ==
    (workflow = "cc" /\ pc = "done") =>
        /\ DOMAIN summary[1] = {"created", "updated", "skipped"}
        /\ summary[1].created = CountOutcome(outcomes, "created")
        /\ summary[1].updated = CountOutcome(outcomes, "updated")
        /\ summary[1].skipped = CountOutcome(outcomes, "skipped")
        /\ summary[1].created + summary[1].updated + summary[1].skipped
              = Len(outcomes) - CountOutcome(outcomes, "error")
        /\ Len(outcomes) = Len(data)

\* A run reached the summary with one object created and one in error.
C10_Witness ==
    /\ workflow = "cc" /\ pc = "done"
    /\ CountOutcome(outcomes, "error") = 1 /\ CountOutcome(outcomes, "created") = 1
    /\ summary[1].created = 1

\* The ids of a sequence of stored objects.
StoredIds(objs) == {objs[i].id : i \in DOMAIN objs}

\* C11: no step of either workflow removes a destination object: every
\* config context, virtual machine and device held before the step is held
\* after it; the requests of a step to the destination are GET, POST to the
\* config-context collection or PATCH to a detail URL of a config context,
\* virtual machine or device (the reference collections, tags among them,
\* are only read); the requests to the source are GET.
C11_NoDeletion ==
    [][ (workflow \in {"cc", "lc"}) =>
          ( /\ StoredIds(dest) \subseteq StoredIds(dest')
            /\ \A t \in DOMAIN destObjs :
                  StoredIds(destObjs[t]) \subseteq StoredIds(destObjs'[t])
            /\ \A i \in DOMAIN reqs' :
                  /\ (reqs'[i].host = "src") => (reqs'[i].method = "GET")
                  /\ (reqs'[i].host = "dst") =>
                        ( \/ reqs'[i].method = "GET"
                          \/ (reqs'[i].method = "POST" /\ reqs'[i].path = ContextsEndpoint
                                 /\ reqs'[i].key = "list")
                          \/ (reqs'[i].method = "PATCH" /\ reqs'[i].key = "detail"
                                 /\ reqs'[i].path \in {ContextsEndpoint,
                                                       OBJECT_TYPES.virtual_machine.endpoint,
                                                       OBJECT_TYPES.device.endpoint}) ) )
      ]_vars

\* A run that updated one context and created another: the destination
\* holds one object more than the two it started with.
C11_Witness ==
    /\ workflow = "cc" /\ pc = "done"
    /\ created = 1 /\ updated = 1
    /\ Len(dest) = 3

\* The connection test of the destination.
PrecheckReq == Req("dst", "GET", ContextsEndpoint, "limit", "", 1)

\* Some request of a sequence goes to the destination for one object (a
\* name lookup, a reference lookup, a detail fetch, a POST or a PATCH).
PerObject(rs) == \E i \in DOMAIN rs : rs[i].host = "dst" /\ rs[i] # PrecheckReq

\* C12: in a ConfigContext run that reads the source from the API: a step
\* issues per-object requests to the destination only from the loop, the
\* loop is entered only by the step in which the connection test succeeded,
\* and a failed connection test ends the process (exit 1) with no object
\* reconciled and nothing done afterwards. With --import-file the
\* connection test is never issued.
C12_PrecheckOrdering ==
    [][ (workflow = "cc") =>
          ( /\ (~args.import_file /\ PerObject(reqs')) => (pc = "ready")
            /\ (~args.import_file /\ pc # "ready" /\ pc' = "ready" /\ run' = 1) =>
                  (pc = "fetched" /\ reqs' = << PrecheckReq >> /\ resps' = << "ok" >>)
            /\ (reqs' = << PrecheckReq >> /\ resps' # << "ok" >>) =>
                  (pc' = "exit1" /\ outcomes' = << >> /\ idx' = 1 /\ dest' = dest)
            /\ pc # "exit1"
            /\ args.import_file => (\A i \in DOMAIN reqs' : reqs'[i] # PrecheckReq) )
      ]_vars

\* A run that read the source from the API has passed the connection test
\* and created its first object.
C12_Witness ==
    /\ workflow = "cc" /\ ~args.import_file /\ ~args.export_file
    /\ pc = "ready" /\ idx = 2 /\ run = 1
    /\ outcomes = << "created" >>
    /\ PerObject(reqs)

\* No two stored config contexts carry the same name.
NamesUnique(d) == \A i, j \in DOMAIN d : d[i].name = d[j].name => i = j

\* C13: a call of create_or_update_context issues a POST for a context
\* named N only when the destination holds no object named N at that
\* moment, whatever fails in the call, the name lookup included; so the
\* names of the destination, unique at the start, stay unique.
C13_NameUniqueness ==
    [][ (workflow = "cc" /\ pc = "ready" /\ idx <= Len(data) /\ idx' = idx + 1) =>
          ( /\ (ReqsOf(reqs', "POST") # << >>) =>
                  (SelectSeq(dest, LAMBDA c : c.name = data[idx].name) = << >>)
            /\ NamesUnique(dest) => NamesUnique(dest') )
      ]_vars

\* The POST and PATCH requests of the last step.
Writes == SelectSeq(reqs, LAMBDA r : r.method \in {"POST", "PATCH"})

\* C14: the payload of every POST or PATCH of create_or_update_context
\* holds name, weight and data of the source context, is_active (TRUE when
\* the source has none), description ("" when the source has none) and each
\* of the 13 assignment fields as a list of ids, the empty list for a field
\* the source lacks or holds empty.
C14_PayloadShape ==
    (workflow = "cc" /\ pc \in {"ready", "raised"} /\ idx > 1) =>
        \A i \in DOMAIN Writes :
            LET body == Writes[i].body
                ctx == data[idx - 1]
            IN  /\ body.name = ctx.name /\ body.weight = ctx.weight /\ body.data = ctx.data
                /\ body.is_active = (IF "is_active" \in DOMAIN ctx THEN ctx.is_active ELSE TRUE)
                /\ body.description =
                      (IF "description" \in DOMAIN ctx THEN ctx.description ELSE "")
                /\ FieldSet \subseteq DOMAIN body
                /\ \A f \in FieldSet :
                      /\ \A k \in DOMAIN body[f] : body[f][k] \in Nat
                      /\ GetOrEmpty(ctx, f) = << >> => body[f] = << >>

\* What the i-th value of a generic field resolves to, given the responses.
GenericIds(field, values, rs, i) ==
    LET results == QueryRefs(lookup[field].endpoint, lookup[field].filter_key, Term(values[i]))
    IN  IF i \in DOMAIN rs /\ rs[i] = "ok" /\ results # << >> THEN << results[1].id >>
        ELSE << >>

\* C15: for a generic field, whatever lookup fails or finds nothing: every
\* value of the field is looked up, in order, by its term; the function
\* returns; and the list of the field is, in input order, the first-result
\* id of each value whose lookup succeeded with a result.
C15_PerValueRecovery ==
    (workflow = "resolve" /\ pc = "done" /\ fnIn.field # "tags" /\ fnIn.values # << >>) =>
        LET field == fnIn.field
            values == fnIn.values
        IN  /\ ~fnOut[1].raised
            /\ reqs = [i \in DOMAIN values |->
                         Req("dst", "GET", lookup[field].endpoint, lookup[field].filter_key,
                             Term(values[i]), 0)]
            /\ field \in DOMAIN fnOut[1].mapping
            /\ fnOut[1].mapping[field] =
                  Flatten([i \in DOMAIN values |-> GenericIds(field, values, resps, i)])

\* The fetch of a config context's detail representation is among the
\* requests rs and its response, in os, is a failure.
DetailFailed(rs, os) ==
    \E i \in DOMAIN rs :
        /\ rs[i].method = "GET" /\ rs[i].key = "detail" /\ rs[i].path = ContextsEndpoint
        /\ os[i] # "ok"

\* C16: when the fetch of the existing object's detail representation
\* fails (error status or transport exception), the call returns "error",
\* issues no POST and no PATCH, leaves the destination as it was, moves no
\* counter, and the loop stays in progress at the next source object.
C16_DetailFetchFailure ==
    [][ (workflow = "cc" /\ pc = "ready" /\ idx <= Len(data) /\ idx' = idx + 1
         /\ DetailFailed(reqs', resps')) =>
          ( /\ outcomes' = Append(outcomes, "error")
            /\ ReqsOf(reqs', "POST") = << >> /\ ReqsOf(reqs', "PATCH") = << >>
            /\ reqs'[Len(reqs')].key = "detail"
            /\ SelectSeq(dest, LAMBDA c : c.name = data[idx].name) # << >>
            /\ dest' = dest
            /\ created' = created /\ updated' = updated /\ skipped' = skipped
            /\ pc' = "ready" )
      ]_vars

\* The detail fetch for the first of two source objects has failed and the
\* loop stands at the second.
C16_Witness ==
    /\ workflow = "cc" /\ pc = "ready" /\ Len(data) = 2 /\ idx = 2
    /\ DetailFailed(reqs, resps)
    /\ outcomes = << "error" >>

\* C17: an iteration of transfer_contexts issues at most one PATCH; its
\* body is exactly {local_context_data: the entry's document}; when the
\* PATCH succeeds, the object at its URL holds the entry's document in
\* place of its previous one and is otherwise as before, and every other
\* destination object is as before; when no PATCH is issued or it fails,
\* the destination is as before.
C17_PatchFrame ==
    [][ (workflow = "lc" /\ pc = "ready" /\ idx <= Len(data) /\ idx' = idx + 1) =>
          LET doc == data[idx].local_context_data
              patches == ReqsOf(reqs', "PATCH")
              patched == patches # << >> /\ resps'[Len(resps')] = "ok"
          IN  /\ Len(patches) <= 1
              /\ (patches # << >>) =>
                    ( /\ patches[1].body = [local_context_data |-> doc]
                      /\ patches[1] = reqs'[Len(reqs')] )
              /\ patched =>
                    (\A t \in DOMAIN destObjs :
                        /\ Len(destObjs'[t]) = Len(destObjs[t])
                        /\ \A i \in DOMAIN destObjs[t] :
                              destObjs'[t][i] =
                                 IF patches[1].path = OBJECT_TYPES[t].endpoint
                                    /\ destObjs[t][i].id = patches[1].n
                                 THEN [destObjs[t][i] EXCEPT !.local_context_data = doc]
                                 ELSE destObjs[t][i])
              /\ (~patched) => (destObjs' = destObjs)
      ]_vars

\* The document "L1" of vm-7 has replaced the document "old" of the
\* destination's vm-7, whose other fields are as they were.
C17_Witness ==
    /\ workflow = "lc" /\ pc = "ready" /\ idx > 1
    /\ data[idx - 1].name = "vm-7" /\ data[idx - 1].local_context_data = "L1"
    /\ LastOutcome = "applied"
    /\ destObjs.virtual_machine = << DestObj(7, "vm-7", "L1") >>
    /\ Len(ReqsOf(reqs, "PATCH")) = 1

\* C18: at the end of transfer_contexts the summary's 'applied' is the
\* number of entries whose PATCH succeeded, its 'failed' is the number of
\* entries that were not located on the destination or whose PATCH failed,
\* and the two sum to the number of entries of the source data.
C18_AppliedPlusFailed ==
    (workflow = "lc" /\ pc = "done") =>
        /\ summary[1].applied = CountOutcome(outcomes, "applied")
        /\ summary[1].failed =
              CountOutcome(outcomes, "not_found") + CountOutcome(outcomes, "patch_failed")
        /\ summary[1].applied + summary[1].failed = Len(data)
        /\ Len(outcomes) = Len(data)

\* A run ended with one entry applied, one not located and one whose
\* PATCH failed.
C18_Witness ==
    /\ workflow = "lc" /\ pc = "done"
    /\ CountOutcome(outcomes, "applied") = 1
    /\ CountOutcome(outcomes, "not_found") = 1
    /\ CountOutcome(outcomes, "patch_failed") = 1
    /\ summary = << [applied |-> 1, failed |-> 2] >>

====
